---------------------------- MODULE Spec2Model ----------------------------
(***************************************************************************)
(* PCIe error recovery (drivers/pci/pcie/err.c): the vote merger, the      *)
(* per-device report_* callbacks, the non-fatal orchestrator               *)
(* pcie_do_nonfatal_recovery and the fatal orchestrator                    *)
(* pcie_do_fatal_recovery, run by up to two concurrent recovery threads    *)
(* on the subtree of one port (device 0).                                  *)
(***************************************************************************)
EXTENDS Integers, Sequences, FiniteSets, TLC

(***************************************************************************)
(* Bounds of the model.                                                    *)
(***************************************************************************)
\* devices below the port in the single-run specification
NumDevs == 3
\* devices below the port when two recoveries run concurrently
ConcDevs == 1
\* longest vote list folded by the vote-merger specification
MaxFold == 2
\* devices below the port when every vote of a walk is recorded
FoldDevs == 2

Port == 0
Runs == {1, 2}

(***************************************************************************)
(* enum pci_ers_result, pci_channel_state_t, header types.                 *)
(***************************************************************************)
NONE           == "NONE"
CAN_RECOVER    == "CAN_RECOVER"
NEED_RESET     == "NEED_RESET"
DISCONNECT     == "DISCONNECT"
RECOVERED      == "RECOVERED"
NO_AER_DRIVER  == "NO_AER_DRIVER"
Votes == {NONE, CAN_RECOVER, NEED_RESET, DISCONNECT, RECOVERED, NO_AER_DRIVER}

io_normal       == "normal"
io_frozen       == "frozen"
io_perm_failure == "perm_failure"

BRIDGE   == "bridge"
ENDPOINT == "endpoint"

\* the four operations of struct pci_error_handlers used by err.c
Ops == {"error_detected", "mmio_enabled", "slot_reset", "resume"}
\* what a visit finds bound to the device: no driver, a driver without
\* err_handler, or an err_handler with some of the operations
NoDriver     == [driver |-> FALSE, err_handler |-> FALSE, ops |-> {}]
NoErrHandler == [driver |-> TRUE, err_handler |-> FALSE, ops |-> {}]
\* (the handlers modelled have all four operations, none, or lack one)
HandlerOps == {{}, Ops} \cup {Ops \ {o} : o \in Ops}
Bindings == {NoDriver, NoErrHandler}
              \cup {[driver |-> TRUE, err_handler |-> TRUE, ops |-> o] : o \in HandlerOps}
\* what a handler operation may return
HandlerVotes == Votes
\* the return values to consider at a visit: none when no handler is called
Returns(called) == IF called THEN HandlerVotes ELSE {NONE}
\* what the reset_link callback of the fatal path may return
ResetLinkResults == Votes
\* pci_reset_bus: 0 or a negative errno
ResetBusRets == {0, -1}

(***************************************************************************)
(* merge_result                                                            *)
(***************************************************************************)
merge_result_last_wins(orig, new) ==
    IF new = NO_AER_DRIVER THEN NO_AER_DRIVER
    ELSE IF new = NONE THEN orig
    ELSE new

merge_result_no_promote(orig, new) ==
    IF new = NO_AER_DRIVER THEN NO_AER_DRIVER
    ELSE IF new = NONE THEN orig
    ELSE IF orig \in {CAN_RECOVER, RECOVERED} THEN new
    ELSE orig

merge_result(orig, new) ==
    IF new = NO_AER_DRIVER THEN NO_AER_DRIVER
    ELSE IF new = NONE THEN orig
    ELSE CASE orig \in {CAN_RECOVER, RECOVERED} -> new
           [] orig = DISCONNECT ->
                IF new = NEED_RESET THEN NEED_RESET ELSE orig
           [] OTHER -> orig

(***************************************************************************)
(* State.                                                                  *)
(***************************************************************************)
VARIABLES
    parent,       \* parent[d]: the bridge (or the port) device d sits below
    hdr_type,     \* hdr_type[d]: BRIDGE or ENDPOINT
    present,      \* devices currently on the bus lists
    error_state,  \* error_state[d]: the channel state of d
    dev_lock,     \* dev_lock[d]: the runs inside device_lock(&d->dev)
    rescan_lock,  \* the runs inside pci_lock_rescan_remove()
    run,          \* run[r]: locals and position of recovery thread r
    hist,         \* hist[r]: what thread r has done so far (observation only)
    mAcc, mRest, mLast  \* the vote-merger specification: fold state

vars == <<parent, hdr_type, present, error_state, dev_lock, rescan_lock,
          run, hist, mAcc, mRest, mLast>>
topoVars == <<parent, hdr_type>>
mergeVars == <<mAcc, mRest, mLast>>

Devs == DOMAIN parent

(***************************************************************************)
(* Topology helpers.                                                       *)
(***************************************************************************)
RECURSIVE SortedSeq(_)
SortedSeq(S) ==
    IF S = {} THEN <<>>
    ELSE LET m == CHOOSE x \in S : \A y \in S : x <= y
         IN <<m>> \o SortedSeq(S \ {m})

Reverse(s) == [i \in 1..Len(s) |-> s[Len(s) + 1 - i]]

Range(s) == {s[i] : i \in 1..Len(s)}

\* bus->devices of the bus below p, in discovery order
BusDevices(p) == SortedSeq({d \in present : parent[d] = p})

RECURSIVE Descendants(_)
Descendants(p) ==
    LET kids == {d \in present : parent[d] = p}
    IN kids \cup UNION {Descendants(k) : k \in kids}

(***************************************************************************)
(* pci_walk_bus: every device below the bus, a bridge before the devices   *)
(* of its subordinate bus, siblings in list order.                         *)
(***************************************************************************)
RECURSIVE pci_walk_order(_)
pci_walk_order(devs) ==
    IF devs = <<>> THEN <<>>
    ELSE <<Head(devs)>> \o pci_walk_order(BusDevices(Head(devs)))
                       \o pci_walk_order(Tail(devs))

\* pci_walk_bus stops at the first callback that returns nonzero
pci_walk_next(todo, retval) == IF retval # 0 THEN <<>> ELSE Tail(todo)

(***************************************************************************)
(* pci_dev_set_io_state: PERM_FAILURE is final; returns whether the state  *)
(* was set.                                                                *)
(***************************************************************************)
pci_dev_set_io_state(old, new) ==
    IF new = io_perm_failure \/ old \in {io_normal, io_frozen}
    THEN [changed |-> TRUE, state |-> new]
    ELSE [changed |-> FALSE, state |-> old]

(***************************************************************************)
(* device_lock: free when no run is inside it.                             *)
(***************************************************************************)
device_lock_free(d) == dev_lock[d] = {}

(***************************************************************************)
(* Initial state.                                                          *)
(***************************************************************************)
\* a recovery thread before it is handed an error
NewRun ==
    [kind |-> "new", pc |-> "start", dev |-> Port, port |-> Port,
     phase |-> "none", todo |-> <<>>, step |-> "lock",
     status |-> CAN_RECOVER, vote |-> "unset", uevent |-> "unset",
     before |-> "unset", bound |-> FALSE, ops |-> <<>>,
     rlist |-> <<>>, rmq |-> <<>>, result |-> NONE, ref |-> FALSE,
     unlocks |-> 0]

\* a thread that is never handed an error
AbsentRun == [NewRun EXCEPT !.kind = "absent", !.pc = "absent"]

NewHist ==
    [track |-> "summary", init |-> NONE, seen |-> <<>>, votes |-> <<>>,
     events |-> <<>>, phases |-> <<>>,
     path |-> <<>>, invoked |-> {}, resets |-> 0, notified |-> <<>>,
     cleared |-> {}, removed |-> <<>>, link |-> "none", rescanned |-> FALSE,
     edAllCan |-> TRUE, edNoDrv |-> FALSE, mmio |-> "recovered",
     srAllRec |-> TRUE, resetRet |-> 0]

\* the forests below the port: a device is discovered after its parent, a
\* device with devices below it is a bridge
Topologies(n) ==
    {f \in [1..n -> 0..n] : \A d \in 1..n : f[d] < d}

HdrTypes(f) ==
    {h \in [0..Len(f) -> {BRIDGE, ENDPOINT}] :
        /\ h[Port] = BRIDGE
        /\ \A d \in 1..Len(f) : h[f[d]] = BRIDGE}

MergeIdle ==
    /\ mAcc = NONE
    /\ mRest = <<>>
    /\ mLast = <<>>

\* the devices below bridge b in topology f
RECURSIVE Below(_, _)
Below(f, b) ==
    LET kids == {d \in DOMAIN f : f[d] = b}
    IN kids \cup UNION {Below(f, k) : k \in kids}

\* the channel states a recovery can find: all normal, or the devices below
\* one bridge marked disconnected (pci_walk_bus(.., pci_dev_set_disconnected))
ChannelStates(f, h, marked) ==
    {[d \in DOMAIN f |-> io_normal]}
      \cup (IF marked
            THEN {[d \in DOMAIN f |-> IF d \in Below(f, b) THEN io_perm_failure
                                                         ELSE io_normal] :
                    b \in {x \in DOMAIN h : h[x] = BRIDGE}}
            ELSE {})

InitTopology(n, marked) ==
    /\ parent \in Topologies(n)
    /\ hdr_type \in HdrTypes(parent)
    /\ present = 1..n
    /\ error_state \in ChannelStates(parent, hdr_type, marked)
    /\ dev_lock = [d \in 1..n |-> {}]
    /\ rescan_lock = {}
    /\ MergeIdle

\* one recovery on a subtree of NumDevs devices, some of which may already
\* have been marked disconnected
Init ==
    /\ InitTopology(NumDevs, TRUE)
    /\ run = [r \in Runs |-> IF r = 1 THEN NewRun ELSE AbsentRun]
    /\ hist = [r \in Runs |-> NewHist]

\* one recovery on a subtree of FoldDevs devices, every vote recorded
InitFold ==
    /\ InitTopology(FoldDevs, TRUE)
    /\ run = [r \in Runs |-> IF r = 1 THEN NewRun ELSE AbsentRun]
    /\ hist = [r \in Runs |-> [NewHist EXCEPT !.track = "votes"]]

\* two recoveries started concurrently on the same port; what each has done
\* is not recorded
InitConc ==
    /\ InitTopology(ConcDevs, FALSE)
    /\ run = [r \in Runs |-> NewRun]
    /\ hist = [r \in Runs |-> [NewHist EXCEPT !.track = "off"]]

(***************************************************************************)
(* Updating one thread.                                                    *)
(***************************************************************************)
SetRun(r, rec) == run' = [run EXCEPT ![r] = rec]
SetHist(r, rec) ==
    hist' = IF hist[r].track = "off" THEN hist ELSE [hist EXCEPT ![r] = rec]

\* the votes folded in the walk so far, when they are recorded
Voted(h, called, vote) ==
    IF h.track = "votes" /\ called THEN Append(h.votes, vote) ELSE h.votes

\* pci_walk_bus(bus below p, callback of `phase`, ...): the walk starts
BeginWalk(rec, phase, p) ==
    [rec EXCEPT !.pc = "walk", !.phase = phase, !.step = "lock",
                !.todo = pci_walk_order(BusDevices(p))]

BeginWalkHist(h, initial) ==
    [h EXCEPT !.init = initial, !.seen = <<>>, !.votes = <<>>,
              !.events = <<>>]

InWalk(r) == run[r].pc = "walk"

\* the device the walk of r is at
Cur(r) == Head(run[r].todo)

(***************************************************************************)
(* One visit of the walk: device_lock, the callback body, device_unlock    *)
(* and the callback's return to pci_walk_bus.                              *)
(***************************************************************************)
\* every callback starts with device_lock(&dev->dev)
callback_locks_but_mmio(phase) == phase # "mmio_enabled"

callback_locks(phase) == TRUE

DeviceLock(r) ==
    /\ InWalk(r)
    /\ run[r].step = "lock"
    /\ run[r].todo # <<>>
    /\ callback_locks(run[r].phase) => device_lock_free(Cur(r))
    /\ dev_lock' = [dev_lock EXCEPT ![Cur(r)] = @ \cup {r}]
    /\ SetRun(r, [run[r] EXCEPT !.step = "body"])
    /\ UNCHANGED <<topoVars, present, error_state, rescan_lock, hist, mergeVars>>

\* every report_* callback ends in "return 0"
report_return_veto(phase, vote) == IF vote = NO_AER_DRIVER THEN 1 ELSE 0

report_return_on_reset(phase, vote) == IF vote = NEED_RESET THEN 1 ELSE 0

report_return(phase, vote) == 0

\* every path of a callback, the "goto out" of a skipped device included,
\* goes through device_unlock(&dev->dev)
callback_unlocks_unless_skipped(phase, ops) == ops # <<>>

callback_unlocks(phase, ops) == TRUE

DeviceUnlock(r) ==
    /\ InWalk(r)
    /\ run[r].step = "unlock"
    /\ dev_lock' = IF callback_unlocks(run[r].phase, run[r].ops)
                   THEN [dev_lock EXCEPT ![Cur(r)] = @ \ {r}]
                   ELSE dev_lock
    /\ SetRun(r, [run[r] EXCEPT
           !.step = "lock", !.vote = "unset", !.uevent = "unset",
           !.before = "unset", !.bound = FALSE, !.ops = <<>>,
           !.todo = pci_walk_next(run[r].todo,
                                  report_return(run[r].phase, run[r].vote))])
    /\ UNCHANGED <<topoVars, present, error_state, rescan_lock, hist, mergeVars>>

(***************************************************************************)
(* The report_* callbacks (the part between device_lock and device_unlock).*)
(***************************************************************************)
\* dev->driver && dev->driver->err_handler && dev->driver->err_handler->op
has_handler(b, op) == b.driver /\ b.err_handler /\ op \in b.ops

\* the vote of report_error_detected: hv is what the handler returns if called
error_detected_calls(changed, b) == changed /\ has_handler(b, "error_detected")

error_detected_vote_no_veto(changed, b, hdr, hv) ==
    IF ~error_detected_calls(changed, b) THEN NONE ELSE hv

error_detected_vote(changed, b, hdr, hv) ==
    IF ~error_detected_calls(changed, b)
    THEN IF hdr # BRIDGE THEN NO_AER_DRIVER ELSE NONE
    ELSE hv

\* what a visit does between device_lock and device_unlock, in order
error_detected_steps(called) ==
    <<"set_io_state">> \o (IF called THEN <<"handler">> ELSE <<>>)
                      \o <<"uevent", "merge">>

vote_steps_with_uevent(called) ==
    IF called THEN <<"handler", "uevent", "merge">> ELSE <<>>

\* report_mmio_enabled and report_slot_reset
vote_steps(called) == IF called THEN <<"handler", "merge">> ELSE <<>>

resume_steps_set_last(called) ==
    (IF called THEN <<"handler">> ELSE <<>>) \o <<"uevent", "set_io_state">>

resume_steps(called) ==
    <<"set_io_state">> \o (IF called THEN <<"handler">> ELSE <<>>) \o <<"uevent">>

\* how report_error_detected, report_mmio_enabled and report_slot_reset fold
\* the vote into *result
fold_vote_commuted(result, vote) == merge_result(vote, result)

fold_vote(result, vote) == merge_result(result, vote)

ReportErrorDetected(r) ==
    /\ InWalk(r)
    /\ run[r].step = "body"
    /\ run[r].phase = "error_detected"
    /\ \E b \in Bindings :
       \E hv \in Returns(error_detected_calls(
                      pci_dev_set_io_state(error_state[Cur(r)], io_normal).changed, b)) :
         LET d == Cur(r)
             io == pci_dev_set_io_state(error_state[d], io_normal)
             called == error_detected_calls(io.changed, b)
             vote == error_detected_vote(io.changed, b, hdr_type[d], hv)
         IN /\ error_state' = [error_state EXCEPT ![d] = io.state]
            /\ SetRun(r, [run[r] EXCEPT
                   !.step = "unlock", !.vote = vote, !.uevent = vote,
                   !.before = run[r].status,
                   !.bound = has_handler(b, "error_detected"),
                   !.ops = error_detected_steps(called),
                   !.status = fold_vote(run[r].status, vote)])
            /\ SetHist(r, [hist[r] EXCEPT
                   !.seen = Append(@, d),
                   !.votes = Voted(hist[r], TRUE, vote),
                   !.events = Append(@, d),
                   !.invoked = IF called THEN @ \cup {"error_detected"} ELSE @,
                   !.edAllCan = @ /\ called /\ vote = CAN_RECOVER,
                   !.edNoDrv = @ \/ (~has_handler(b, "error_detected")
                                      /\ hdr_type[d] # BRIDGE)])
    /\ UNCHANGED <<topoVars, present, dev_lock, rescan_lock, mergeVars>>

\* how the votes returned by the mmio_enabled handlers so far are classed
MmioClass(old, vote) ==
    IF old = "other" \/ vote \notin {RECOVERED, NEED_RESET} THEN "other"
    ELSE IF vote = NEED_RESET THEN "need_reset"
    ELSE old

ReportMmioEnabled(r) ==
    /\ InWalk(r)
    /\ run[r].step = "body"
    /\ run[r].phase = "mmio_enabled"
    /\ \E b \in Bindings :
       \E hv \in Returns(has_handler(b, "mmio_enabled")) :
         LET d == Cur(r)
             called == has_handler(b, "mmio_enabled")
         IN /\ SetRun(r, [run[r] EXCEPT
                   !.step = "unlock",
                   !.before = run[r].status,
                   !.bound = called,
                   !.ops = vote_steps(called),
                   !.uevent = IF "uevent" \in Range(vote_steps(called)) THEN hv ELSE @,
                   !.vote = IF called THEN hv ELSE @,
                   !.status = IF called THEN fold_vote(@, hv) ELSE @])
            /\ SetHist(r, [hist[r] EXCEPT
                   !.seen = Append(@, d),
                   !.votes = Voted(hist[r], called, hv),
                   !.events = IF "uevent" \in Range(vote_steps(called))
                              THEN Append(@, d) ELSE @,
                   !.invoked = IF called THEN @ \cup {"mmio_enabled"} ELSE @,
                   !.mmio = IF called THEN MmioClass(@, hv) ELSE @])
    /\ UNCHANGED <<topoVars, present, error_state, dev_lock, rescan_lock, mergeVars>>

ReportSlotReset(r) ==
    /\ InWalk(r)
    /\ run[r].step = "body"
    /\ run[r].phase = "slot_reset"
    /\ \E b \in Bindings :
       \E hv \in Returns(has_handler(b, "slot_reset")) :
         LET d == Cur(r)
             called == has_handler(b, "slot_reset")
         IN /\ SetRun(r, [run[r] EXCEPT
                   !.step = "unlock",
                   !.before = run[r].status,
                   !.bound = called,
                   !.ops = vote_steps(called),
                   !.uevent = IF "uevent" \in Range(vote_steps(called)) THEN hv ELSE @,
                   !.vote = IF called THEN hv ELSE @,
                   !.status = IF called THEN fold_vote(@, hv) ELSE @])
            /\ SetHist(r, [hist[r] EXCEPT
                   !.seen = Append(@, d),
                   !.votes = Voted(hist[r], called, hv),
                   !.events = IF "uevent" \in Range(vote_steps(called))
                              THEN Append(@, d) ELSE @,
                   !.invoked = IF called THEN @ \cup {"slot_reset"} ELSE @,
                   !.srAllRec = @ /\ (called => hv = RECOVERED)])
    /\ UNCHANGED <<topoVars, present, error_state, dev_lock, rescan_lock, mergeVars>>

ReportResume(r) ==
    /\ InWalk(r)
    /\ run[r].step = "body"
    /\ run[r].phase = "resume"
    /\ \E b \in Bindings :
         LET d == Cur(r)
             io == pci_dev_set_io_state(error_state[d], io_normal)
             called == io.changed /\ has_handler(b, "resume")
         IN /\ error_state' = [error_state EXCEPT ![d] = io.state]
            /\ SetRun(r, [run[r] EXCEPT
                   !.step = "unlock", !.uevent = RECOVERED,
                   !.before = run[r].status,
                   !.bound = has_handler(b, "resume"),
                   !.ops = resume_steps(called)])
            /\ SetHist(r, [hist[r] EXCEPT
                   !.seen = Append(@, d),
                   !.events = Append(@, d),
                   !.invoked = IF called THEN @ \cup {"resume"} ELSE @])
    /\ UNCHANGED <<topoVars, present, dev_lock, rescan_lock, mergeVars>>

\* pci_dev_set_disconnected, the callback of the fatal path's marking walk
SetDisconnected(r) ==
    /\ InWalk(r)
    /\ run[r].step = "body"
    /\ run[r].phase = "disconnect"
    /\ LET d == Cur(r)
           io == pci_dev_set_io_state(error_state[d], io_perm_failure)
       IN /\ error_state' = [error_state EXCEPT ![d] = io.state]
          /\ SetRun(r, [run[r] EXCEPT !.step = "unlock",
                                        !.ops = <<"set_io_state">>])
          /\ SetHist(r, [hist[r] EXCEPT !.seen = Append(@, d)])
    /\ UNCHANGED <<topoVars, present, dev_lock, rescan_lock, mergeVars>>

(***************************************************************************)
(* The end of a walk: pci_walk_bus returns to the orchestrator.            *)
(***************************************************************************)
\* the statement after each pci_walk_bus call
after_walk(phase) ==
    CASE phase = "error_detected" -> "if_can_recover"
      [] phase = "mmio_enabled"   -> "if_need_reset"
      [] phase = "slot_reset"     -> "if_recovered"
      [] phase = "resume"         -> "clear_status"
      [] phase = "disconnect"     -> "lock_rescan"

\* the state of the recovery state machine a finished broadcast leads to
StateAfter(phase) ==
    CASE phase = "error_detected" -> <<"DETECTED">>
      [] phase = "mmio_enabled"   -> <<"MMIO_CHECKED">>
      [] phase = "slot_reset"     -> <<"SLOT_RESET">>
      [] phase = "resume"         -> <<"RESUMED">>
      [] phase = "disconnect"     -> <<>>

WalkDone(r) ==
    /\ InWalk(r)
    /\ run[r].step = "lock"
    /\ run[r].todo = <<>>
    /\ SetRun(r, [run[r] EXCEPT !.pc = after_walk(run[r].phase)])
    /\ SetHist(r, [hist[r] EXCEPT
           !.path = @ \o StateAfter(run[r].phase),
           !.phases = Append(@, <<run[r].phase, Len(hist[r].seen)>>)])
    /\ UNCHANGED <<topoVars, present, error_state, dev_lock, rescan_lock, mergeVars>>

(***************************************************************************)
(* pcie_do_nonfatal_recovery                                               *)
(***************************************************************************)
\* the devices an error is reported by: the port or an endpoint on its bus
Reporters ==
    {Port} \cup {d \in present : parent[d] = Port /\ hdr_type[d] # BRIDGE}

\* pci_pcie_type(dev) is ROOT_PORT or DOWNSTREAM
is_port(dev) == dev = Port

nonfatal_port(dev) == IF ~is_port(dev) THEN parent[dev] ELSE dev

NonfatalStart(r) ==
    /\ run[r].pc = "start"
    /\ \E dev \in Reporters :
         LET p == nonfatal_port(dev)
         IN SetRun(r, BeginWalk([run[r] EXCEPT !.kind = "nonfatal", !.dev = dev,
                                              !.port = p, !.status = CAN_RECOVER],
                                "error_detected", p))
    /\ SetHist(r, BeginWalkHist([hist[r] EXCEPT !.path = <<"START">>], CAN_RECOVER))
    /\ UNCHANGED <<topoVars, present, error_state, dev_lock, rescan_lock, mergeVars>>

\* if (status == PCI_ERS_RESULT_CAN_RECOVER)
mmio_when_recovered(status) == status = RECOVERED

mmio_when(status) == status = CAN_RECOVER

NonfatalIfCanRecover(r) ==
    /\ run[r].pc = "if_can_recover"
    /\ IF mmio_when(run[r].status)
       THEN /\ SetRun(r, BeginWalk([run[r] EXCEPT !.status = RECOVERED],
                                   "mmio_enabled", run[r].port))
            /\ SetHist(r, BeginWalkHist(hist[r], RECOVERED))
       ELSE /\ SetRun(r, [run[r] EXCEPT !.pc = "if_need_reset"])
            /\ UNCHANGED hist
    /\ UNCHANGED <<topoVars, present, error_state, dev_lock, rescan_lock, mergeVars>>

\* the status and the next statement after a failed pci_reset_bus
reset_failed_keep_vote(rec) == [rec EXCEPT !.pc = "failed"]

reset_failed(rec) == [rec EXCEPT !.status = DISCONNECT, !.pc = "failed"]

NonfatalIfNeedReset(r) ==
    /\ run[r].pc = "if_need_reset"
    /\ IF run[r].status = NEED_RESET
       THEN \E ret \in ResetBusRets :
              IF ret < 0
              THEN /\ SetRun(r, reset_failed(run[r]))
                   /\ SetHist(r, [hist[r] EXCEPT
                          !.resets = @ + 1, !.resetRet = ret,
                          !.path = @ \o <<"RESET", "FAILED">>])
              ELSE /\ SetRun(r, BeginWalk([run[r] EXCEPT !.status = RECOVERED],
                                          "slot_reset", run[r].port))
                   /\ SetHist(r, BeginWalkHist(
                          [hist[r] EXCEPT !.resets = @ + 1, !.resetRet = ret,
                                          !.path = Append(@, "RESET")],
                          RECOVERED))
       ELSE /\ SetRun(r, [run[r] EXCEPT !.pc = "if_recovered"])
            /\ UNCHANGED hist
    /\ UNCHANGED <<topoVars, present, error_state, dev_lock, rescan_lock, mergeVars>>

\* if (status != PCI_ERS_RESULT_RECOVERED) goto failed
resume_when_not_disconnect(status) == status # DISCONNECT

resume_when(status) == status = RECOVERED

NonfatalIfRecovered(r) ==
    /\ run[r].pc = "if_recovered"
    /\ IF resume_when(run[r].status)
       THEN /\ SetRun(r, BeginWalk(run[r], "resume", run[r].port))
            /\ SetHist(r, BeginWalkHist(hist[r], run[r].status))
       ELSE /\ SetRun(r, [run[r] EXCEPT !.pc = "failed"])
            /\ SetHist(r, [hist[r] EXCEPT !.path = Append(@, "FAILED")])
    /\ UNCHANGED <<topoVars, present, error_state, dev_lock, rescan_lock, mergeVars>>

\* the status latches of the port cleared on success
nonfatal_cleared(native) ==
    {"nonfatal_status"} \cup (IF native THEN {"device_status"} ELSE {})

NonfatalClearStatus(r) ==
    /\ run[r].pc = "clear_status"
    /\ \E native \in BOOLEAN :
         SetHist(r, [hist[r] EXCEPT !.cleared = @ \cup nonfatal_cleared(native)])
    /\ SetRun(r, [run[r] EXCEPT !.pc = "done"])
    /\ UNCHANGED <<topoVars, present, error_state, dev_lock, rescan_lock, mergeVars>>

\* failed: pci_uevent_ers(dev, PCI_ERS_RESULT_DISCONNECT)
failed_uevents(dev) == <<<<dev, DISCONNECT>>>>

\* the channel states after the failed: label: as the walks left them
failed_error_state_disconnects(es, port) == [d \in DOMAIN es |-> io_perm_failure]

failed_error_state(es, port) == es

NonfatalFailed(r) ==
    /\ run[r].pc = "failed"
    /\ SetHist(r, [hist[r] EXCEPT !.notified = @ \o failed_uevents(run[r].port)])
    /\ SetRun(r, [run[r] EXCEPT !.pc = "done"])
    /\ error_state' = failed_error_state(error_state, run[r].port)
    /\ UNCHANGED <<topoVars, present, dev_lock, rescan_lock, mergeVars>>

(***************************************************************************)
(* pcie_do_fatal_recovery                                                  *)
(***************************************************************************)
\* the acting root: the reporting bridge itself, else the bridge above it
fatal_udev(dev) == IF hdr_type[dev] = BRIDGE THEN dev ELSE parent[dev]

FatalStart(r) ==
    /\ run[r].pc = "start"
    /\ \E dev \in Reporters :
         LET udev == fatal_udev(dev)
         IN SetRun(r, BeginWalk([run[r] EXCEPT !.kind = "fatal", !.dev = dev,
                                              !.port = udev],
                                "disconnect", udev))
    /\ SetHist(r, BeginWalkHist(hist[r], NONE))
    /\ UNCHANGED <<topoVars, present, error_state, dev_lock, rescan_lock, mergeVars>>

\* pci_lock_rescan_remove: a mutex
rescan_lock_free == rescan_lock = {}

\* list_for_each_entry_safe_reverse(pdev, temp, &parent->devices, bus_list)
fatal_remove_list_forward(udev) == BusDevices(udev)

fatal_remove_list(udev) == Reverse(BusDevices(udev))

FatalLockRescanRemove(r) ==
    /\ run[r].pc = "lock_rescan"
    /\ rescan_lock_free
    /\ rescan_lock' = rescan_lock \cup {r}
    /\ SetRun(r, [run[r] EXCEPT !.pc = "dev_get"])
    /\ UNCHANGED <<topoVars, present, error_state, dev_lock, hist, mergeVars>>

\* whether the run holds a reference on dev after line 161: pci_dev_get(dev)
fatal_ref_not_taken(ref) == ref

fatal_ref_after_get(ref) == TRUE

\* pci_dev_get(dev), then the removal loop is entered
FatalDevGet(r) ==
    /\ run[r].pc = "dev_get"
    /\ LET l == fatal_remove_list(run[r].port)
       IN SetRun(r, [run[r] EXCEPT !.ref = fatal_ref_after_get(@), !.rlist = l,
                       !.pc = IF l = <<>> THEN "reset_link" ELSE "remove"])
    /\ UNCHANGED <<topoVars, present, error_state, dev_lock, rescan_lock, hist, mergeVars>>

\* pci_stop_and_remove_bus_device(d): the devices below d go first, the
\* last discovered first, then d itself
RECURSIVE RemoveSeq(_)
RemoveSeq(devs) ==
    IF devs = <<>> THEN <<>>
    ELSE RemoveSeq(Reverse(BusDevices(Head(devs))))
           \o <<Head(devs)>> \o RemoveSeq(Tail(devs))

pci_stop_and_remove_bus_device(d) == RemoveSeq(<<d>>)

\* the bus lists change only while no pci_walk_bus is under way (pci_bus_sem)
NoWalkBut(r) == \A o \in Runs \ {r} : ~InWalk(o)

\* one device leaves the bus lists
FatalRemove(r) ==
    /\ run[r].pc = "remove"
    /\ NoWalkBut(r)
    /\ LET q == IF run[r].rmq = <<>>
                THEN pci_stop_and_remove_bus_device(Head(run[r].rlist))
                ELSE run[r].rmq
           l == IF run[r].rmq = <<>> THEN Tail(run[r].rlist) ELSE run[r].rlist
           d == Head(q)
       IN /\ present' = present \ {d}
          /\ SetRun(r, [run[r] EXCEPT
                 !.rmq = Tail(q), !.rlist = l,
                 !.pc = IF Tail(q) = <<>> /\ l = <<>> THEN "reset_link" ELSE "remove"])
          /\ SetHist(r, [hist[r] EXCEPT !.removed = Append(@, d)])
    /\ UNCHANGED <<topoVars, error_state, dev_lock, rescan_lock, mergeVars>>

\* result = reset_link(udev)
FatalResetLink(r) ==
    /\ run[r].pc = "reset_link"
    /\ \E res \in ResetLinkResults :
         SetRun(r, [run[r] EXCEPT !.result = res, !.pc = "clear_fatal"])
    /\ SetHist(r, [hist[r] EXCEPT !.resets = @ + 1])
    /\ UNCHANGED <<topoVars, present, error_state, dev_lock, rescan_lock, mergeVars>>

\* if (dev->hdr_type == PCI_HEADER_TYPE_BRIDGE): clear the bridge's status
fatal_cleared(dev, native) ==
    IF hdr_type[dev] = BRIDGE
    THEN {"fatal_status"} \cup (IF native THEN {"device_status"} ELSE {})
    ELSE {}

FatalClearStatus(r) ==
    /\ run[r].pc = "clear_fatal"
    /\ \E native \in BOOLEAN :
         SetHist(r, [hist[r] EXCEPT !.cleared = @ \cup fatal_cleared(run[r].dev, native)])
    /\ SetRun(r, [run[r] EXCEPT !.pc = "if_recovered_fatal"])
    /\ UNCHANGED <<topoVars, present, error_state, dev_lock, rescan_lock, mergeVars>>

\* if (result == RECOVERED) { if (pcie_wait_for_link(udev, true)) rescan }
\* else pci_uevent_ers(dev, DISCONNECT)
fatal_rescans_always(result, link_up) == result = RECOVERED

fatal_rescans(result, link_up) == result = RECOVERED /\ link_up

fatal_uevents(dev, result, link_up) ==
    IF result # RECOVERED THEN <<<<dev, DISCONNECT>>>> ELSE <<>>

FatalIfRecovered(r) ==
    /\ run[r].pc = "if_recovered_fatal"
    /\ \E link_up \in BOOLEAN :
         /\ SetRun(r, [run[r] EXCEPT
                !.pc = IF fatal_rescans(run[r].result, link_up)
                       THEN "rescan" ELSE "dev_put"])
         /\ SetHist(r, [hist[r] EXCEPT
                !.link = IF run[r].result = RECOVERED
                         THEN (IF link_up THEN "up" ELSE "down") ELSE @,
                !.notified = @ \o fatal_uevents(run[r].dev, run[r].result, link_up)])
    /\ UNCHANGED <<topoVars, present, error_state, dev_lock, rescan_lock, mergeVars>>

\* pci_rescan_bus(udev->bus): the devices behind the link are found again,
\* as new devices in the normal channel state
FatalRescan(r) ==
    /\ run[r].pc = "rescan"
    /\ NoWalkBut(r)
    /\ present' = Devs
    /\ error_state' = [d \in Devs |-> IF d \in present THEN error_state[d]
                                                       ELSE io_normal]
    /\ SetRun(r, [run[r] EXCEPT !.pc = "dev_put"])
    /\ SetHist(r, [hist[r] EXCEPT !.rescanned = TRUE])
    /\ UNCHANGED <<topoVars, dev_lock, rescan_lock, mergeVars>>

FatalDevPut(r) ==
    /\ run[r].pc = "dev_put"
    /\ SetRun(r, [run[r] EXCEPT !.ref = FALSE, !.pc = "unlock_rescan"])
    /\ UNCHANGED <<topoVars, present, error_state, dev_lock, rescan_lock, hist, mergeVars>>

\* return result
fatal_return(result) == result

FatalUnlockRescanRemove(r) ==
    /\ run[r].pc = "unlock_rescan"
    /\ rescan_lock' = rescan_lock \ {r}
    /\ SetRun(r, [run[r] EXCEPT !.pc = "done", !.unlocks = @ + 1,
                                  !.status = fatal_return(run[r].result)])
    /\ UNCHANGED <<topoVars, present, error_state, dev_lock, hist, mergeVars>>

(***************************************************************************)
(* The specifications.                                                     *)
(***************************************************************************)
Next ==
    \E r \in Runs :
        \/ NonfatalStart(r)
        \/ FatalStart(r)
        \/ DeviceLock(r)
        \/ ReportErrorDetected(r)
        \/ ReportMmioEnabled(r)
        \/ ReportSlotReset(r)
        \/ ReportResume(r)
        \/ SetDisconnected(r)
        \/ DeviceUnlock(r)
        \/ WalkDone(r)
        \/ NonfatalIfCanRecover(r)
        \/ NonfatalIfNeedReset(r)
        \/ NonfatalIfRecovered(r)
        \/ NonfatalClearStatus(r)
        \/ NonfatalFailed(r)
        \/ FatalLockRescanRemove(r)
        \/ FatalDevGet(r)
        \/ FatalRemove(r)
        \/ FatalResetLink(r)
        \/ FatalClearStatus(r)
        \/ FatalIfRecovered(r)
        \/ FatalRescan(r)
        \/ FatalDevPut(r)
        \/ FatalUnlockRescanRemove(r)

\* one recovery, non-fatal or fatal
Spec == Init /\ [][Next]_vars

\* two concurrent recoveries on the same port
SpecConc == InitConc /\ [][Next]_vars

\* the steps of recovery thread r
Step(r) ==
    \/ NonfatalStart(r) \/ FatalStart(r)
    \/ DeviceLock(r) \/ DeviceUnlock(r) \/ WalkDone(r)
    \/ ReportErrorDetected(r) \/ ReportMmioEnabled(r) \/ ReportSlotReset(r)
    \/ ReportResume(r) \/ SetDisconnected(r)
    \/ NonfatalIfCanRecover(r) \/ NonfatalIfNeedReset(r) \/ NonfatalIfRecovered(r)
    \/ NonfatalClearStatus(r) \/ NonfatalFailed(r)
    \/ FatalLockRescanRemove(r) \/ FatalDevGet(r) \/ FatalRemove(r)
    \/ FatalResetLink(r) \/ FatalClearStatus(r) \/ FatalIfRecovered(r)
    \/ FatalRescan(r) \/ FatalDevPut(r) \/ FatalUnlockRescanRemove(r)

\* two concurrent recoveries, each thread scheduled again and again while
\* it can take a step: handlers, reset_link, pci_reset_bus and
\* pcie_wait_for_link return, and a free lock is granted to a waiter
SpecLive == InitConc /\ [][Next]_vars /\ \A r \in Runs : WF_vars(Step(r))

\* one recovery, the votes of every walk recorded
SpecFold == InitFold /\ [][Next]_vars

(***************************************************************************)
(* The vote merger alone: merge_result folded over a list of votes.        *)
(***************************************************************************)
VoteLists == UNION {[1..n -> Votes] : n \in 0..MaxFold}

InitMerge ==
    /\ parent = <<>>
    /\ hdr_type = [d \in {Port} |-> BRIDGE]
    /\ present = {}
    /\ error_state = <<>>
    /\ dev_lock = <<>>
    /\ rescan_lock = {}
    /\ run = [r \in Runs |-> AbsentRun]
    /\ hist = [r \in Runs |-> NewHist]
    /\ mAcc \in Votes
    /\ mRest \in VoteLists
    /\ mLast = <<>>

\* *result = merge_result(*result, vote) for the next vote of the list
MergeStep ==
    /\ mRest # <<>>
    /\ mAcc' = merge_result(mAcc, Head(mRest))
    /\ mLast' = <<mAcc, Head(mRest), mAcc'>>
    /\ mRest' = Tail(mRest)
    /\ UNCHANGED <<topoVars, present, error_state, dev_lock, rescan_lock, run, hist>>

NextMerge == MergeStep

SpecMerge == InitMerge /\ [][NextMerge]_vars

(***************************************************************************)
(* Properties.                                                             *)
(***************************************************************************)
Nonfatal(r) == run[r].kind = "nonfatal"
Fatal(r) == run[r].kind = "fatal"
Returned(r) == run[r].pc = "done"
\* between its first and its last step
Active(r) == run[r].pc \notin {"start", "done", "absent"}
\* between device_lock and device_unlock of the device its walk is at
InVisit(r) == InWalk(r) /\ run[r].step \in {"body", "unlock"}
NoDuplicates(s) == \A i, j \in 1..Len(s) : s[i] = s[j] => i = j
VotingPhases == {"error_detected", "mmio_enabled", "slot_reset"}

\* the reference table of the vote merger: MergeTable[current][incoming]
MergeTable ==
    [c \in Votes |->
       [i \in Votes |->
          IF i = NO_AER_DRIVER THEN NO_AER_DRIVER
          ELSE IF i = NONE THEN c
          ELSE IF c \in {CAN_RECOVER, RECOVERED} THEN i
          ELSE IF c = DISCONNECT /\ i = NEED_RESET THEN NEED_RESET
          ELSE c]]

\* C1: every application merge_result(current, incoming) returns the entry
\* of the reference table; in particular merge(v, NONE) = v and
\* merge(v, NO_DRIVER) = NO_DRIVER for every v, merge(DISCONNECT, NEED_RESET)
\* = NEED_RESET and merge(DISCONNECT, CAN_RECOVER) = DISCONNECT.
C1_MergeTable ==
    /\ mLast # <<>> =>
         /\ mLast[3] = MergeTable[mLast[1]][mLast[2]]
         /\ mLast[2] = NONE => mLast[3] = mLast[1]
         /\ mLast[2] = NO_AER_DRIVER => mLast[3] = NO_AER_DRIVER
         /\ (mLast[1] = DISCONNECT /\ mLast[2] = NEED_RESET) => mLast[3] = NEED_RESET
         /\ (mLast[1] = DISCONNECT /\ mLast[2] = CAN_RECOVER) => mLast[3] = DISCONNECT
    /\ \A c, i \in Votes : merge_result(c, i) = MergeTable[c][i]

\* a DISCONNECT total has just been promoted by a NEED_RESET vote
C1_Witness == mLast = <<DISCONNECT, NEED_RESET, NEED_RESET>>

\* C2 as stated: at most one recovery is between its first and last step
C2_OneRunActive == Cardinality({r \in Runs : Active(r)}) <= 1

\* C2 as amended: two recoveries on the same port may run at the same
\* time, but never are two of them inside the visit of the same device
\* (between its device_lock and its device_unlock)
C2_OneRunPerDevice ==
    /\ \A d \in Devs : Cardinality(dev_lock[d]) <= 1
    /\ \A r1, r2 \in Runs :
         (r1 # r2 /\ InVisit(r1) /\ InVisit(r2)) => Cur(r1) # Cur(r2)

\* both recoveries are in a walk of the subtree, one inside the visit of the
\* device the other waits for
C2_Witness ==
    \E r1, r2 \in Runs :
       /\ r1 # r2
       /\ InVisit(r1)
       /\ InWalk(r2) /\ run[r2].step = "lock" /\ run[r2].todo # <<>>
       /\ Cur(r1) = Cur(r2)

\* C3: no walk of a non-fatal recovery visits a device twice, and once a
\* walk has returned every device of the subtree has been visited exactly
\* once, whatever the votes were
C3_BroadcastComplete ==
    \A r \in Runs : Nonfatal(r) =>
       /\ NoDuplicates(hist[r].seen)
       /\ Range(hist[r].seen) \subseteq Descendants(run[r].port)
       /\ ~InWalk(r) =>
            /\ Range(hist[r].seen) = Descendants(run[r].port)
            /\ Len(hist[r].seen) = Cardinality(Descendants(run[r].port))

\* an error_detected walk has returned with the veto, its first device
\* being one whose channel state could not be set
C3_Witness ==
    \E r \in Runs :
       /\ Nonfatal(r)
       /\ run[r].pc = "if_can_recover"
       /\ run[r].status = NO_AER_DRIVER
       /\ Len(hist[r].seen) = NumDevs
       /\ error_state[hist[r].seen[1]] = io_perm_failure
       /\ hdr_type[hist[r].seen[1]] # BRIDGE

\* C4: when every error_detected was called and returned CAN_RECOVER and
\* every mmio_enabled returned RECOVERED, the recovery goes START, DETECTED,
\* MMIO_CHECKED, RESUMED with no reset and no slot_reset, returns RECOVERED
\* and leaves every device in the normal channel state
C4_SuccessPath ==
    \A r \in Runs :
       (Nonfatal(r) /\ hist[r].edAllCan /\ hist[r].mmio = "recovered") =>
          /\ hist[r].resets = 0
          /\ "slot_reset" \notin hist[r].invoked
          /\ Returned(r) =>
               /\ hist[r].path = <<"START", "DETECTED", "MMIO_CHECKED", "RESUMED">>
               /\ run[r].status = RECOVERED
               /\ \A d \in Descendants(run[r].port) : error_state[d] = io_normal

C4_Witness ==
    \E r \in Runs :
       /\ Nonfatal(r) /\ Returned(r)
       /\ hist[r].edAllCan /\ hist[r].mmio = "recovered"
       /\ "mmio_enabled" \in hist[r].invoked

\* C5: when every error_detected returned CAN_RECOVER, the mmio_enabled
\* votes were RECOVERED or NEED_RESET with at least one NEED_RESET, the bus
\* reset succeeded and every slot_reset returned RECOVERED, the recovery
\* resets once, walks slot_reset from RECOVERED, resumes and returns RECOVERED
C5_ResetPath ==
    \A r \in Runs :
       (Nonfatal(r) /\ hist[r].edAllCan /\ hist[r].mmio = "need_reset"
          /\ hist[r].resetRet = 0 /\ hist[r].srAllRec) =>
          /\ (InWalk(r) /\ run[r].phase = "slot_reset") =>
                (hist[r].init = RECOVERED /\ hist[r].resets = 1)
          /\ Returned(r) =>
               /\ hist[r].path = <<"START", "DETECTED", "MMIO_CHECKED",
                                   "RESET", "SLOT_RESET", "RESUMED">>
               /\ hist[r].resets = 1
               /\ run[r].status = RECOVERED

C5_Witness ==
    \E r \in Runs :
       /\ Nonfatal(r) /\ Returned(r)
       /\ hist[r].edAllCan /\ hist[r].mmio = "need_reset"
       /\ hist[r].resetRet = 0 /\ hist[r].srAllRec
       /\ "slot_reset" \in hist[r].invoked

\* C6: once a non-bridge device was found without driver, handler or
\* error_detected, the running vote is NO_DRIVER for good, no mmio_enabled,
\* slot_reset or resume handler is called, nothing is reset or removed, and
\* the recovery returns NO_DRIVER after one DISCONNECT event for the port
C6_NoDriverVeto ==
    \A r \in Runs :
       (Nonfatal(r) /\ hist[r].edNoDrv) =>
          /\ run[r].status = NO_AER_DRIVER
          /\ hist[r].invoked \subseteq {"error_detected"}
          /\ hist[r].resets = 0
          /\ hist[r].removed = <<>>
          /\ present = Devs
          /\ Returned(r) => hist[r].notified = <<<<run[r].port, DISCONNECT>>>>

\* the veto came from a device visited after one whose handler was called
C6_Witness ==
    \E r \in Runs :
       /\ Nonfatal(r) /\ Returned(r)
       /\ hist[r].edNoDrv
       /\ "error_detected" \in hist[r].invoked

\* the fatal recovery has removed the subtree and not (yet) rediscovered it
RemovedNotRescanned(r) ==
    /\ Fatal(r)
    /\ ~hist[r].rescanned
    /\ run[r].pc \in {"reset_link", "clear_fatal", "if_recovered_fatal", "rescan",
                       "dev_put", "unlock_rescan", "done"}

\* C7: a fatal recovery removes a device only after every device below it,
\* removes siblings in reverse discovery order, and from the end of the
\* removal until rediscovery no device is left below the acting root
C7_TeardownOrder ==
    \A r \in Runs : Fatal(r) =>
       LET rm == hist[r].removed
       IN /\ \A i \in 1..Len(rm) :
               Below(parent, rm[i]) \subseteq {rm[j] : j \in 1..(i - 1)}
          /\ \A i, j \in 1..Len(rm) :
               (i < j /\ parent[rm[i]] = parent[rm[j]]) => rm[i] > rm[j]
          /\ RemovedNotRescanned(r) =>
               (Descendants(run[r].port) = {} /\ Range(rm) = Devs)

\* the whole subtree is removed, and it had both a device below a bridge
\* and two devices on one bus
C7_Witness ==
    \E r \in Runs :
       /\ Fatal(r)
       /\ run[r].pc = "reset_link"
       /\ Len(hist[r].removed) = NumDevs
       /\ \E d \in Devs : parent[d] # Port
       /\ \E d, e \in Devs : d # e /\ parent[d] = parent[e]

\* C8: when the bus reset fails, the recovery ends FAILED and returns
\* DISCONNECT without a slot_reset or resume walk, without clearing the
\* port's status, after exactly one DISCONNECT event for the port
C8_ResetFailure ==
    \A r \in Runs :
       (Nonfatal(r) /\ hist[r].resetRet < 0) =>
          /\ hist[r].resets = 1
          /\ run[r].status = DISCONNECT
          /\ run[r].phase \notin {"slot_reset", "resume"}
          /\ hist[r].invoked \cap {"slot_reset", "resume"} = {}
          /\ Range(hist[r].path) \cap {"SLOT_RESET", "RESUMED"} = {}
          /\ hist[r].path[Len(hist[r].path)] = "FAILED"
          /\ hist[r].cleared = {}
          /\ Returned(r) => hist[r].notified = <<<<run[r].port, DISCONNECT>>>>

\* the reset was asked for by the mmio_enabled walk and failed
C8_Witness ==
    \E r \in Runs :
       /\ Nonfatal(r) /\ Returned(r)
       /\ hist[r].resetRet < 0
       /\ hist[r].path = <<"START", "DETECTED", "MMIO_CHECKED", "RESET", "FAILED">>

\* C9: a fatal recovery calls reset_link once and returns what it returned;
\* it rediscovers the subtree exactly when that is RECOVERED and the link
\* came up, and emits DISCONNECT exactly when it is not RECOVERED
C9_FatalOutcome ==
    \A r \in Runs :
       (Fatal(r) /\ Returned(r)) =>
          /\ hist[r].resets = 1
          /\ run[r].status = run[r].result
          /\ hist[r].rescanned <=> (run[r].result = RECOVERED /\ hist[r].link = "up")
          /\ hist[r].notified = IF run[r].result # RECOVERED
                                THEN <<<<run[r].dev, DISCONNECT>>>> ELSE <<>>

\* the link was reset but did not come up: nothing rediscovered, RECOVERED
\* returned all the same
C9_Witness ==
    \E r \in Runs :
       /\ Fatal(r) /\ Returned(r)
       /\ run[r].result = RECOVERED
       /\ hist[r].link = "down"
       /\ ~hist[r].rescanned

\* the initial vote of each voting phase
InitialVote(phase) == IF phase = "error_detected" THEN CAN_RECOVER ELSE RECOVERED

RECURSIVE LeftFold(_, _)
LeftFold(acc, votes) ==
    IF votes = <<>> THEN acc
    ELSE LeftFold(merge_result(acc, Head(votes)), Tail(votes))

\* between two visits of a voting walk, and after it until the orchestrator
\* next assigns the status
FoldPoint(r) ==
    /\ Nonfatal(r)
    /\ run[r].phase \in VotingPhases
    /\ \/ InWalk(r) /\ run[r].step = "lock"
       \/ run[r].pc \in {"if_can_recover", "if_need_reset", "if_recovered"}

\* C10: the running vote of a voting phase is the left fold of merge_result
\* over the votes of the devices visited so far, in visit order, from the
\* phase's initial vote; the fold depends on the order of the votes
C10_LeftFold ==
    /\ \A r \in Runs : FoldPoint(r) =>
          /\ hist[r].init = InitialVote(run[r].phase)
          /\ run[r].status = LeftFold(hist[r].init, hist[r].votes)
    /\ LeftFold(CAN_RECOVER, <<RECOVERED, CAN_RECOVER>>) = CAN_RECOVER
    /\ LeftFold(CAN_RECOVER, <<CAN_RECOVER, RECOVERED>>) = RECOVERED

\* an error_detected walk has returned CAN_RECOVER although its first
\* device voted RECOVERED: the later vote overrode it
C10_Witness ==
    \E r \in Runs :
       /\ run[r].pc = "if_can_recover"
       /\ hist[r].votes = <<RECOVERED, CAN_RECOVER>>
       /\ run[r].status = CAN_RECOVER

\* how often x occurs in the sequence s
Count(s, x) == Cardinality({i \in 1..Len(s) : s[i] = x})

\* r has run the callback body of `phase` on the device its walk is at and
\* has not yet unlocked it
Visited(r, phase) ==
    /\ Nonfatal(r)
    /\ InWalk(r)
    /\ run[r].phase = phase
    /\ run[r].step = "unlock"

\* C11: in the error_detected phase a device whose channel state is already
\* PERM_FAILURE when visited contributes no vote: the running vote after the
\* visit is the one before it, its handler is not called and the walk goes
\* on, for bridges and non-bridges alike
C11_NoVoteWhenDisconnected ==
    \A r \in Runs :
       (Visited(r, "error_detected") /\ error_state[Cur(r)] = io_perm_failure) =>
          /\ run[r].status = run[r].before
          /\ "handler" \notin Range(run[r].ops)
          /\ report_return(run[r].phase, run[r].vote) = 0

\* C12 as stated: every device visited by the resume walk ends the visit in
\* the normal channel state, the set to NORMAL being the last step of the
\* visit, with exactly one "recovered" event; the resume handler is called
\* only if it is bound
C12_ResumeEndsNormal ==
    \A r \in Runs : Visited(r, "resume") =>
       /\ error_state[Cur(r)] = io_normal
       /\ run[r].ops[Len(run[r].ops)] = "set_io_state"
       /\ Count(run[r].ops, "uevent") = 1
       /\ run[r].uevent = RECOVERED
       /\ "handler" \in Range(run[r].ops) => run[r].bound

\* C12 as amended: the resume visit first sets the channel state to NORMAL,
\* which leaves a PERM_FAILURE device PERM_FAILURE; the resume handler is
\* called exactly when it is bound and the set succeeded; the visit's last
\* step is its one "recovered" event
C12_ResumeSetsFirst ==
    \A r \in Runs : Visited(r, "resume") =>
       /\ run[r].ops[1] = "set_io_state"
       /\ Count(run[r].ops, "set_io_state") = 1
       /\ run[r].ops[Len(run[r].ops)] = "uevent"
       /\ Count(run[r].ops, "uevent") = 1
       /\ run[r].uevent = RECOVERED
       /\ error_state[Cur(r)] \in {io_normal, io_perm_failure}
       /\ "handler" \in Range(run[r].ops) <=>
             (run[r].bound /\ error_state[Cur(r)] = io_normal)

\* the resume walk has visited a disconnected bridge whose driver has a
\* resume operation: the device stays PERM_FAILURE and resume is not called
C12_Witness ==
    \E r \in Runs :
       /\ Visited(r, "resume")
       /\ error_state[Cur(r)] = io_perm_failure
       /\ run[r].bound
       /\ run[r].ops = <<"set_io_state", "uevent">>

\* the broadcast phases and the states of the recovery state machine, in order
PhaseOrder == <<"error_detected", "mmio_enabled", "slot_reset", "resume">>
StateOrder == <<"START", "DETECTED", "MMIO_CHECKED", "RESET", "SLOT_RESET",
                "RESUMED", "FAILED">>
IndexOf(s, x) == CHOOSE i \in 1..Len(s) : s[i] = x
Increasing(order, s) ==
    \A i, j \in 1..Len(s) : i < j => IndexOf(order, s[i]) < IndexOf(order, s[j])

\* C13: the walks of a non-fatal recovery come in the order error_detected,
\* mmio_enabled, slot_reset (after the one reset), resume; while a walk is
\* under way every earlier walk has visited every device of the subtree, and
\* within a walk the devices are visited one at a time in walk order, the
\* visit of one finished before the next is locked
C13_PhasesSequential ==
    \A r \in Runs : Nonfatal(r) =>
       LET done == hist[r].phases
           all == pci_walk_order(BusDevices(run[r].port))
       IN /\ Increasing(PhaseOrder, [i \in 1..Len(done) |-> done[i][1]])
          /\ Increasing(StateOrder, hist[r].path)
          /\ \A i \in 1..Len(done) : done[i][2] = Len(all)
          /\ InWalk(r) =>
               /\ \A i \in 1..Len(done) :
                     IndexOf(PhaseOrder, done[i][1]) < IndexOf(PhaseOrder, run[r].phase)
               /\ run[r].phase = "slot_reset" =>
                     (hist[r].resets = 1 /\ hist[r].path[Len(hist[r].path)] = "RESET")
               /\ hist[r].seen \o (IF run[r].step = "unlock" THEN Tail(run[r].todo)
                                                             ELSE run[r].todo) = all
               /\ {d \in Devs : r \in dev_lock[d]}
                     = IF run[r].step = "lock" THEN {} ELSE {Cur(r)}

\* a recovery that went through all four walks has returned
C13_Witness ==
    \E r \in Runs :
       /\ Nonfatal(r) /\ Returned(r)
       /\ [i \in 1..Len(hist[r].phases) |-> hist[r].phases[i][1]] = PhaseOrder
       /\ Len(pci_walk_order(BusDevices(run[r].port))) = NumDevs

\* the device locks r holds
Held(r) == {d \in Devs : r \in dev_lock[d]}

\* C14: a recovery holds at most one device lock; it holds the lock of the
\* device it visits from device_lock until device_unlock, so that the
\* channel-state set, the handler call and the vote merge of the visit are
\* done under it; it holds none between two visits, when a walk has
\* returned, or outside the walks, whichever path the visit took
C14_LockDiscipline ==
    \A r \in Runs :
       /\ Cardinality(Held(r)) <= 1
       /\ InVisit(r) => Held(r) = {Cur(r)}
       /\ ~InVisit(r) => (Held(r) = {} /\ run[r].ops = <<>>)

\* an mmio_enabled walk is between two visits, every device visited so far
\* having been skipped for lack of a handler
C14_Witness ==
    \E r \in Runs :
       /\ InWalk(r) /\ run[r].phase = "mmio_enabled" /\ run[r].step = "lock"
       /\ hist[r].seen # <<>>
       /\ run[r].todo # <<>>
       /\ "mmio_enabled" \notin hist[r].invoked
       /\ Held(r) = {}

\* from pci_lock_rescan_remove() taken to pci_unlock_rescan_remove() due
FatalSection ==
    {"dev_get", "remove", "reset_link", "clear_fatal", "if_recovered_fatal",
     "rescan", "dev_put", "unlock_rescan"}
\* where the next statement of the fatal recovery uses the reporting device
FatalUsesDev == {"clear_fatal", "if_recovered_fatal", "dev_put"}

\* C15: a fatal recovery holds the rescan/remove lock exactly from before
\* its first removal until after the link reset, the rediscovery and the
\* notification, and has released it once when it returns; it holds its
\* reference on the reporting device from before the first removal until
\* after the last use of that device, so it never uses the device when it
\* is removed and unreferenced; two fatal recoveries are never both in
\* their remove/reset/rediscover sections
C15_FatalLockAndRef ==
    /\ Cardinality(rescan_lock) <= 1
    /\ \A r \in Runs :
          /\ r \in rescan_lock <=> (Fatal(r) /\ run[r].pc \in FatalSection)
          /\ run[r].ref <=> (Fatal(r) /\ run[r].pc \in FatalSection
                                                      \ {"dev_get", "unlock_rescan"})
          /\ run[r].unlocks = IF Fatal(r) /\ Returned(r) THEN 1 ELSE 0
          /\ (Fatal(r) /\ run[r].pc \in FatalUsesDev) =>
                (run[r].ref \/ run[r].dev \in present \cup {Port})
    /\ \A r1, r2 \in Runs :
          (r1 # r2 /\ Fatal(r1) /\ Fatal(r2)) =>
             ~(run[r1].pc \in FatalSection /\ run[r2].pc \in FatalSection)

\* one fatal recovery has removed its reporting device and is about to use
\* it, the other has marked the subtree and waits for the lock
C15_Witness ==
    \E r1, r2 \in Runs :
       /\ r1 # r2 /\ Fatal(r1) /\ Fatal(r2)
       /\ run[r1].pc = "clear_fatal"
       /\ run[r1].dev \notin present \cup {Port}
       /\ run[r2].pc = "lock_rescan"

\* r is about to remove the first device of its removal loop
FirstRemoval(r) ==
    /\ Fatal(r)
    /\ run[r].pc = "remove"
    /\ run[r].rmq = <<>>
    /\ run[r].rlist = fatal_remove_list(run[r].port)

\* C16: when a fatal recovery removes its first device every device below
\* the acting root is PERM_FAILURE, whatever runs concurrently; when it
\* calls reset_link nothing is left to remove; it rediscovers only after
\* reset_link has returned; and it never calls a handler operation
C16_FatalStepOrder ==
    \A r \in Runs : Fatal(r) =>
       /\ FirstRemoval(r) =>
             \A d \in Descendants(run[r].port) : error_state[d] = io_perm_failure
       /\ run[r].pc = "reset_link" =>
             (run[r].rlist = <<>> /\ run[r].rmq = <<>>
                /\ Descendants(run[r].port) = {})
       /\ run[r].pc = "rescan" => run[r].result = RECOVERED
       /\ run[r].phase \in {"none", "disconnect"}
       /\ "handler" \notin Range(run[r].ops)

\* where a non-fatal recovery is between or after its walks
NonfatalOrchestrating ==
    {"if_can_recover", "if_need_reset", "if_recovered", "clear_status", "failed"}

\* C17: no step of a non-fatal recovery changes the set of devices or their
\* parent/child relations, and outside the visits of its walks (on the
\* FAILED path in particular) no step of it changes a channel state
C17_NonfatalFrame ==
    [][\A r \in Runs :
          (run'[r] # run[r] /\ run'[r].kind = "nonfatal") =>
             /\ present' = present
             /\ parent' = parent
             /\ hdr_type' = hdr_type
             /\ run[r].pc \in NonfatalOrchestrating => error_state' = error_state
      ]_vars

\* a recovery has failed after its error_detected walk and returned, a
\* device being left disconnected
C17_Witness ==
    \E r \in Runs :
       /\ Nonfatal(r) /\ Returned(r)
       /\ hist[r].path = <<"START", "DETECTED", "FAILED">>
       /\ hist[r].notified = <<<<run[r].port, DISCONNECT>>>>
       /\ \E d \in Devs : error_state[d] = io_perm_failure
       /\ \E d \in Devs : error_state[d] = io_normal
       /\ present = Devs

\* C18 as stated: every visit of every walk of a non-fatal recovery emits
\* exactly one event for the device, carrying its vote (RECOVERED in the
\* resume walk)
C18_EventPerVisit ==
    \A r \in Runs : \A i \in 1..Len(PhaseOrder) :
       Visited(r, PhaseOrder[i]) =>
          /\ Count(run[r].ops, "uevent") = 1
          /\ run[r].uevent = IF PhaseOrder[i] = "resume" THEN RECOVERED
                             ELSE run[r].vote

\* C18 as amended: a visit of the error_detected walk emits exactly one
\* event carrying the device's vote, a visit of the resume walk exactly one
\* RECOVERED event, and a visit of the mmio_enabled or slot_reset walk emits
\* no event, whether or not the handler was called
C18_EventsAtDetectAndResume ==
    \A r \in Runs :
       /\ Visited(r, "error_detected") =>
             /\ Count(run[r].ops, "uevent") = 1
             /\ run[r].uevent = run[r].vote
             /\ hist[r].events = hist[r].seen
       /\ Visited(r, "resume") =>
             /\ Count(run[r].ops, "uevent") = 1
             /\ run[r].uevent = RECOVERED
             /\ hist[r].events = hist[r].seen
       /\ (Visited(r, "mmio_enabled") \/ Visited(r, "slot_reset")) =>
             /\ Count(run[r].ops, "uevent") = 0
             /\ run[r].uevent = "unset"
             /\ hist[r].events = <<>>

\* a slot_reset handler has been called and has voted, and no event was
\* emitted for the device
C18_Witness ==
    \E r \in Runs :
       /\ Visited(r, "slot_reset")
       /\ "handler" \in Range(run[r].ops)
       /\ run[r].vote = RECOVERED
       /\ run[r].uevent = "unset"

\* the walks r has finished
Walked(r) == {hist[r].phases[i][1] : i \in 1..Len(hist[r].phases)}

\* C19: a non-fatal recovery returns RECOVERED exactly when it has walked
\* resume, exactly when it has cleared the port's status, and exactly when
\* it has emitted no DISCONNECT for the port (otherwise it has emitted
\* one); its running vote is never NONE, and no resume visit changes it
C19_RecoveredIffResumed ==
    \A r \in Runs : Nonfatal(r) =>
       /\ run[r].status # NONE
       /\ Visited(r, "resume") =>
             (run[r].status = run[r].before /\ run[r].status = RECOVERED)
       /\ Returned(r) =>
            LET rec == run[r].status = RECOVERED
            IN /\ rec <=> "resume" \in Walked(r)
               /\ rec <=> "nonfatal_status" \in hist[r].cleared
               /\ rec <=> hist[r].cleared # {}
               /\ rec <=> hist[r].notified = <<>>
               /\ ~rec <=> hist[r].notified = <<<<run[r].port, DISCONNECT>>>>

\* a recovery has returned CAN_RECOVER, the vote an mmio_enabled handler
\* left, without resume
C19_Witness ==
    \E r \in Runs :
       /\ Nonfatal(r) /\ Returned(r)
       /\ run[r].status = CAN_RECOVER
       /\ "mmio_enabled" \in Walked(r)
       /\ "resume" \notin Walked(r)

\* r waits for a device lock or for the rescan/remove lock held by another
Blocked(r) ==
    \/ /\ InWalk(r) /\ run[r].step = "lock" /\ run[r].todo # <<>>
       /\ ~device_lock_free(Cur(r))
    \/ /\ run[r].pc = "lock_rescan"
       /\ ~rescan_lock_free

\* r has returned and holds nothing
Terminated(r) ==
    /\ Returned(r)
    /\ Held(r) = {}
    /\ r \notin rescan_lock
    /\ ~run[r].ref
    /\ Nonfatal(r) => run[r].phase \in {"error_detected", "mmio_enabled",
                                         "slot_reset", "resume"}

\* C20: in no state are all recoveries that have not returned blocked on a
\* lock, and under fair scheduling both recoveries, started concurrently
\* and of either kind, eventually have returned for good with every lock
\* and reference released
C20_Terminates ==
    /\ []((\E r \in Runs : ~Returned(r)) =>
              (\E r \in Runs : ~Returned(r) /\ ~Blocked(r)))
    /\ <>[](\A r \in Runs : Terminated(r))

\* a fatal recovery waits for the rescan/remove lock while the other fatal
\* recovery is inside its section
C20_Witness ==
    \E r1, r2 \in Runs :
       /\ r1 # r2
       /\ Blocked(r1) /\ run[r1].pc = "lock_rescan"
       /\ run[r2].pc = "remove"

====
